---- MODULE Spec2Model ----
(***************************************************************************)
(* prep_files.py: the rename pipeline (gather_rename_actions,              *)
(* apply_rename_actions, run_filenames), the metadata pipeline             *)
(* (derive_metadata_for_file, read_current_tags, gather_metadata_actions,  *)
(* apply_metadata_actions, run_metadata) and main's dispatch.              *)
(*                                                                         *)
(* A Python str is a sequence of one-character strings; a Path is a        *)
(* sequence of names (its parts).                                          *)
(***************************************************************************)
EXTENDS Integers, Sequences, FiniteSets, TLC

\* ------------------------------------------------------------------------
\* Characters and str methods
\* ------------------------------------------------------------------------

DigitSeq == <<"0", "1", "2", "3", "4", "5", "6", "7", "8", "9">>

UpperSeq == <<"A", "B", "C", "D", "E", "F", "G", "H", "I", "J", "K", "L", "M",
              "N", "O", "P", "Q", "R", "S", "T", "U", "V", "W", "X", "Y", "Z">>

LowerSeq == <<"a", "b", "c", "d", "e", "f", "g", "h", "i", "j", "k", "l", "m",
              "n", "o", "p", "q", "r", "s", "t", "u", "v", "w", "x", "y", "z">>

\* the characters of the modelled names, in code-point order
Alphabet == <<" ", "(", ")", "-", ".", "/">> \o DigitSeq \o UpperSeq \o <<"_">> \o LowerSeq

Range(s) == {s[i] : i \in DOMAIN s}

\* regex \d
IsDigit(c) == c \in Range(DigitSeq)

\* regex \s
IsSpace(c) == c = " "

\* regex \w (what \b looks at)
IsWord(c) == c \in Range(DigitSeq) \cup Range(UpperSeq) \cup Range(LowerSeq) \cup {"_"}

\* the code point order of str comparison
Ord(c) == CHOOSE i \in DOMAIN Alphabet : Alphabet[i] = c

\* str < str
RECURSIVE StrLess(_, _)
StrLess(a, b) ==
    IF b = <<>> THEN FALSE
    ELSE IF a = <<>> THEN TRUE
    ELSE IF Head(a) = Head(b) THEN StrLess(Tail(a), Tail(b))
    ELSE Ord(Head(a)) < Ord(Head(b))

\* str.lower()
LowerChar(c) == IF c \in Range(UpperSeq)
                THEN LowerSeq[CHOOSE i \in DOMAIN UpperSeq : UpperSeq[i] = c]
                ELSE c

lower(s) == [i \in DOMAIN s |-> LowerChar(s[i])]

RECURSIVE lstrip(_)
lstrip(s) == IF s # <<>> /\ IsSpace(Head(s)) THEN lstrip(Tail(s)) ELSE s

RECURSIVE rstrip(_)
rstrip(s) == IF s # <<>> /\ IsSpace(s[Len(s)]) THEN rstrip(SubSeq(s, 1, Len(s) - 1)) ELSE s

\* str.strip()
strip(s) == rstrip(lstrip(s))

\* int(str) of a run of digits
RECURSIVE IntOf(_)
IntOf(s) == IF s = <<>> THEN 0
            ELSE 10 * IntOf(SubSeq(s, 1, Len(s) - 1))
                 + ((CHOOSE i \in DOMAIN DigitSeq : DigitSeq[i] = s[Len(s)]) - 1)

\* format(n, "d")
RECURSIVE DecimalOf(_)
DecimalOf(n) == IF n < 10 THEN <<DigitSeq[n + 1]>>
                ELSE DecimalOf(n \div 10) \o <<DigitSeq[(n % 10) + 1]>>

\* format(n, "02d")
ZeroPad2(n) == IF n < 10 THEN <<"0">> \o DecimalOf(n) ELSE DecimalOf(n)

\* the length of the longest prefix of s made of digits
RECURSIVE DigitRun(_)
DigitRun(s) == IF s # <<>> /\ IsDigit(Head(s)) THEN 1 + DigitRun(Tail(s)) ELSE 0

\* s without its first n characters
Drop(s, n) == SubSeq(s, n + 1, Len(s))

\* ------------------------------------------------------------------------
\* Optional[...] results and raised exceptions
\* ------------------------------------------------------------------------

None == [tag |-> "None", val |-> <<>>]
Some(v) == [tag |-> "Some", val |-> v]
Raised == [tag |-> "raise", val |-> <<>>]

\* ------------------------------------------------------------------------
\* str.format: a template is a sequence of literal characters and
\* replacement fields
\* ------------------------------------------------------------------------

FieldTokens == {"{album}", "{year}", "{track}", "{track:02d}", "{title}", "{artist}"}

\* a replacement field naming a keyword that was not passed raises KeyError
FormatRaises(template, vals) ==
    \E i \in DOMAIN template : template[i] \in FieldTokens /\ template[i] \notin DOMAIN vals

RECURSIVE Format(_, _)
Format(template, vals) ==
    IF template = <<>> THEN <<>>
    ELSE (IF Head(template) \in DOMAIN vals THEN vals[Head(template)] ELSE <<Head(template)>>)
         \o Format(Tail(template), vals)

\* --album-format default "{album} ({year})"
DefaultAlbumFormat == <<"{album}", " ", "(", "{year}", ")">>
\* --track-format default "{track:02d} {title}"
DefaultTrackFormat == <<"{track:02d}", " ", "{title}">>

\* ------------------------------------------------------------------------
\* Rename rules
\* ------------------------------------------------------------------------

\* what a group that follows \s* captures of rest: \s* gives back one
\* character when rest is all whitespace, for .+ to match
AfterSpaces(rest, stripped) ==
    IF stripped = <<>> THEN SubSeq(rest, Len(rest), Len(rest)) ELSE stripped

\* the match of \s*-\s*(.+)$ on what follows the digits: whitespace, a dash,
\* and at least one more character
DashGroup(afterDigits) ==
    IF Len(afterDigits) >= 2 /\ Head(afterDigits) = "-"
    THEN Some(AfterSpaces(Tail(afterDigits), lstrip(Tail(afterDigits))))
    ELSE None

\* the groups of a match of digits, dash and text
DigitsDashText(name, digits, group) ==
    IF group.tag = "None" THEN None
    ELSE Some([digits |-> SubSeq(name, 1, digits), text |-> group.val])

\* ALBUM_DIR_PATTERN = ^(?P<year>\d{4})\s*-\s*(?P<album>.+)$
\* match(name): year is .val.digits, album is .val.text
ALBUM_DIR_PATTERN(name) ==
    IF Len(name) >= 4 /\ \A i \in 1..4 : IsDigit(name[i])
    THEN DigitsDashText(name, 4, DashGroup(lstrip(Drop(name, 4))))
    ELSE None

\* the digits \d{1,3} takes: all of a run of one to three; of a longer run it
\* takes three, and \s*- then meets a digit
TrackDigits(stem, run) ==
    IF run \in 1..3
    THEN DigitsDashText(stem, run, DashGroup(lstrip(Drop(stem, run))))
    ELSE None

\* TRACK_FILE_PATTERN = ^(?P<num>\d{1,3})\s*-\s*(?P<title>.+)$
\* match(stem): num is .val.digits, title is .val.text
TRACK_FILE_PATTERN(stem) == TrackDigits(stem, DigitRun(stem))

\* return normalized if normalized != name else None
IfChanged(name, normalized) == IF normalized # name THEN Some(normalized) ELSE None

\* template.format(**vals), and the comparison with the name
Normalized(name, template, vals) ==
    IF FormatRaises(template, vals) THEN Raised
    ELSE IfChanged(name, Format(template, vals))

\* the keyword arguments of album_format.format
AlbumFields(groups) == ("{album}" :> strip(groups.text)) @@ ("{year}" :> groups.digits)

\* the keyword arguments of track_format.format
TrackFields(track_no, title) ==
    ("{track}" :> DecimalOf(track_no)) @@ ("{track:02d}" :> ZeroPad2(track_no)) @@ ("{title}" :> title)

\* normalized_album_name once the pattern has been matched
AlbumNameOf(name, album_format, match) ==
    IF match.tag = "None" THEN None
    ELSE Normalized(name, album_format, AlbumFields(match.val))

normalized_album_name(name, album_format) ==
    AlbumNameOf(name, album_format, ALBUM_DIR_PATTERN(name))

\* normalized_track_name once the pattern has been matched
TrackNameOf(stem, track_format, match) ==
    IF match.tag = "None" THEN None
    ELSE Normalized(stem, track_format, TrackFields(IntOf(match.val.digits), strip(match.val.text)))

normalized_track_name(stem, track_format) ==
    TrackNameOf(stem, track_format, TRACK_FILE_PATTERN(stem))

\* ------------------------------------------------------------------------
\* pathlib
\* ------------------------------------------------------------------------

\* PurePath.name
Name(path) == IF path = <<>> THEN <<>> ELSE path[Len(path)]

\* PurePath.parent
Parent(path) == IF path = <<>> THEN <<>> ELSE SubSeq(path, 1, Len(path) - 1)

\* str.rfind("."), 1-based, 0 when there is none
RECURSIVE RFindDot(_)
RFindDot(name) == IF name = <<>> THEN 0
                  ELSE IF name[Len(name)] = "." THEN Len(name)
                  ELSE RFindDot(SubSeq(name, 1, Len(name) - 1))

\* the name splits at its last dot, unless that is its first or last character
SplitsAt(name, i) == 1 < i /\ i < Len(name)

\* PurePath.suffix
SuffixAt(name, i) == IF SplitsAt(name, i) THEN SubSeq(name, i, Len(name)) ELSE <<>>
Suffix(name) == SuffixAt(name, RFindDot(name))

\* PurePath.stem
StemAt(name, i) == IF SplitsAt(name, i) THEN SubSeq(name, 1, i - 1) ELSE name
Stem(name) == StemAt(name, RFindDot(name))

\* PurePath.with_name raises ValueError for these names
InvalidName(name) == name = <<>> \/ name = <<".">> \/ "/" \in Range(name)

\* PurePath.with_name
with_name(path, name) == Parent(path) \o <<name>>

\* str(path): the parts joined by "/"
RECURSIVE Str(_)
Str(path) == IF path = <<>> THEN <<>>
             ELSE IF Len(path) = 1 THEN path[1]
             ELSE path[1] \o <<"/">> \o Str(Tail(path))

\* q is p or lies below p
IsPrefix(p, q) == Len(p) <= Len(q) /\ SubSeq(q, 1, Len(p)) = p

\* Path.exists(), on paths relative to root
exists(tree, path) == \E i \in DOMAIN tree : tree[i].path = path

\* Path.rename(): the entry and everything below it move; an entry that is
\* in the way at the target is replaced, as os.rename does
rename(tree, src, dst) ==
    [i \in {j \in DOMAIN tree : ~IsPrefix(dst, tree[j].path) \/ IsPrefix(src, tree[j].path)} |->
        IF IsPrefix(src, tree[i].path)
        THEN [tree[i] EXCEPT !.path = dst \o Drop(tree[i].path, Len(src))]
        ELSE tree[i]]

\* ------------------------------------------------------------------------
\* Rename planner
\* ------------------------------------------------------------------------

\* RenameAction(kind, source, target)
RenameAction(kind, source, target) == [kind |-> kind, source |-> source, target |-> target]

\* RenameAction.relative_source
relative_source(a) == Str(a.source)

\* Outcome with source=target.relative_to(root) written for the source
Outcome_SourceFromTarget(kind, path, normalized, newName) ==
    IF normalized.tag = "None" THEN None
    ELSE IF normalized.tag = "raise" THEN Raised
    ELSE IF InvalidName(newName) THEN Raised
    ELSE IF with_name(path, newName) # path
         THEN Some(RenameAction(kind, with_name(path, newName), with_name(path, newName)))
         ELSE None

\* one pass of a loop of gather_rename_actions from the normalized name on:
\* an action to append, nothing, or an exception
Outcome(kind, path, normalized, newName) ==
    IF normalized.tag = "None" THEN None
    ELSE IF normalized.tag = "raise" THEN Raised
    ELSE IF InvalidName(newName) THEN Raised
    ELSE IF with_name(path, newName) # path
         THEN Some(RenameAction(kind, path, with_name(path, newName)))
         ELSE None

\* the new name of a file: the normalized stem and the old suffix
NewFileName(path, normalized_stem) ==
    Outcome("file", path, normalized_stem, normalized_stem.val \o Suffix(Name(path)))

\* the file loop's pass for one path
FileOutcome(path, track_format) ==
    NewFileName(path, normalized_track_name(Stem(Name(path)), track_format))

\* the new name of a directory
NewDirName(path, normalized_dir) == Outcome("dir", path, normalized_dir, normalized_dir.val)

\* the directory loop's pass for one path
DirOutcome(path, album_format) ==
    NewDirName(path, normalized_album_name(Name(path), album_format))

\* the list the two loops have built, as the set of its elements (no path is
\* visited twice), and whether a pass raised
Gathered(outcomes) ==
    [raised |-> \E o \in outcomes : o.tag = "raise",
     actions |-> {o.val : o \in {x \in outcomes : x.tag = "Some"}}]

gather_rename_actions(tree, album_format, track_format) ==
    Gathered({IF tree[i].kind = "file"
              THEN FileOutcome(tree[i].path, track_format)
              ELSE DirOutcome(tree[i].path, album_format) : i \in DOMAIN tree})

\* print_rename_preview without its "Files:" section
print_rename_preview_FoldersOnly(acts) == {a \in acts : a.kind = "dir"}

\* print_rename_preview: the actions it prints, folders then files
print_rename_preview(acts) ==
    {a \in acts : a.kind = "dir"} \cup {a \in acts : a.kind = "file"}

\* the action sorted() puts first
FirstBySource(acts) ==
    CHOOSE a \in acts : \A b \in acts \ {a} : StrLess(relative_source(a), relative_source(b))

\* sorted(..., key=lambda a: a.relative_source)
RECURSIVE SortedBySource(_)
FirstThenRest(first, acts) == <<first>> \o SortedBySource(acts \ {first})
SortedBySource(acts) == IF acts = {} THEN <<>> ELSE FirstThenRest(FirstBySource(acts), acts)

\* len(Path(a.relative_source).parts)
Depth(a) == Len(a.source)

\* DirOrders with reverse=True left out: shallowest first
DirOrders_Ascending(dirs) ==
    {q \in [1..Cardinality(dirs) -> dirs] :
        /\ \A i, j \in DOMAIN q : i # j => q[i] # q[j]
        /\ \A i, j \in DOMAIN q : i < j => Depth(q[i]) <= Depth(q[j])}

\* sorted(dirs, key=depth, reverse=True): the sort is stable, and the scan
\* order it starts from is the directory listing's, so directories of equal
\* depth come in any order
DirOrders(dirs) ==
    {q \in [1..Cardinality(dirs) -> dirs] :
        /\ \A i, j \in DOMAIN q : i # j => q[i] # q[j]
        /\ \A i, j \in DOMAIN q : i < j => Depth(q[i]) >= Depth(q[j])}

\* [*files, *dirs]
ApplyOrders(acts) ==
    {SortedBySource({a \in acts : a.kind = "file"}) \o q : q \in DirOrders({a \in acts : a.kind = "dir"})}

\* ------------------------------------------------------------------------
\* Metadata rules
\* ------------------------------------------------------------------------

AUDIO_EXTENSIONS ==
    {<<".", "a", "a", "c">>,
     <<".", "a", "i", "f", "f">>,
     <<".", "a", "l", "a", "c">>,
     <<".", "a", "p", "e">>,
     <<".", "f", "l", "a", "c">>,
     <<".", "m", "4", "a">>,
     <<".", "m", "p", "3">>,
     <<".", "m", "p", "4">>,
     <<".", "o", "g", "g">>,
     <<".", "o", "g", "a">>,
     <<".", "o", "p", "u", "s">>,
     <<".", "w", "a", "v">>,
     <<".", "w", "m", "a">>}

\* what the lazy .+? captures of the text before the parenthesis: the
\* shortest non-empty prefix that leaves only whitespace
BeforeSpaces(before, stripped) == IF stripped = <<>> THEN SubSeq(before, 1, 1) ELSE stripped

\* ALBUM_PATTERN = ^(?P<album>.+?)\s*\((?P<year>\d{4})\)$
\* the name ends in "(dddd)" and has text before it
ALBUM_PATTERN(name) ==
    IF /\ Len(name) >= 7
       /\ name[Len(name) - 5] = "("
       /\ \A i \in (Len(name) - 4)..(Len(name) - 1) : IsDigit(name[i])
       /\ name[Len(name)] = ")"
    THEN Some([album |-> BeforeSpaces(SubSeq(name, 1, Len(name) - 6),
                                      rstrip(SubSeq(name, 1, Len(name) - 6))),
               year |-> SubSeq(name, Len(name) - 4, Len(name) - 1)])
    ELSE None

\* TRACK_PATTERN without the \b
TRACK_PATTERN_NoBoundary(stem) ==
    IF Len(stem) >= 2 /\ IsDigit(stem[1]) /\ IsDigit(stem[2])
    THEN Some([track |-> SubSeq(stem, 1, 2)])
    ELSE None

\* TRACK_PATTERN = ^(?P<track>\d{2})\b
\* two digits and then a word boundary: the end of the stem, or a character
\* that is not a word character
TRACK_PATTERN(stem) ==
    IF /\ Len(stem) >= 2
       /\ IsDigit(stem[1])
       /\ IsDigit(stem[2])
       /\ (Len(stem) = 2 \/ ~IsWord(stem[3]))
    THEN Some([track |-> SubSeq(stem, 1, 2)])
    ELSE None

\* the keys of the dict derive_metadata_for_file returns, in its order
TagKeys == <<"album", "date", "year", "tracknumber", "artist", "albumartist", "author">>

\* the dict derive_metadata_for_file returns
DerivedTags(album, year, track, author) ==
    ("album" :> album) @@ ("date" :> year) @@ ("year" :> year) @@ ("tracknumber" :> track)
    @@ ("artist" :> author) @@ ("albumartist" :> author) @@ ("author" :> author)

\* derive_metadata_for_file once the two patterns have been matched
DeriveFrom(album_match, track_match, author) ==
    IF album_match.tag = "None" THEN None
    ELSE IF track_match.tag = "None" THEN None
    ELSE IF strip(album_match.val.album) = <<>> \/ author = <<>> THEN None
    ELSE Some(DerivedTags(strip(album_match.val.album), album_match.val.year,
                          track_match.val.track, author))

\* path is absolute: album_dir is its parent, author_dir the parent of that
derive_metadata_for_file(path) ==
    DeriveFrom(ALBUM_PATTERN(Name(Parent(path))),
               TRACK_PATTERN(Stem(Name(path))),
               strip(Name(Parent(Parent(path)))))

\* Path.is_file() and suffix.lower() in AUDIO_EXTENSIONS
is_audio_file(node) == node.kind = "file" /\ lower(Suffix(Name(node.path))) \in AUDIO_EXTENSIONS

\* What the codec holds for one key: absent (get returns None), a list of
\* strings, or a string.  v is the list; a string is kept as a list of one.
Absent == [t |-> "absent", v |-> <<>>]
ListOf(values) == [t |-> "list", v |-> values]
StrOf(value) == [t |-> "str", v |-> <<value>>]

\* value[0] if value else "", or the string
FirstValue(value) ==
    IF value.t = "list" THEN (IF value.v # <<>> THEN value.v[1] ELSE <<>>) ELSE value.v[1]

\* audio is what mutagen_file returned: [supported, frames]
read_current_tags(audio, desired_keys) ==
    IF ~audio.supported THEN [k \in {} |-> <<>>]
    ELSE [key \in {k \in desired_keys : audio.frames[k].t \in {"list", "str"}} |->
            FirstValue(audio.frames[key])]

\* dict.get(key, "")
Get(d, key) == IF key \in DOMAIN d THEN d[key] ELSE <<>>

\* MetadataAction(file_path, updates, current)
MetadataAction(file_path, updates, current) ==
    [file_path |-> file_path, updates |-> updates, current |-> current]

\* the paths the loop derives tags for, and so opens with the codec
MetadataCandidates(tree, root) ==
    {tree[i].path : i \in {j \in DOMAIN tree :
        is_audio_file(tree[j]) /\ derive_metadata_for_file(root \o tree[j].path).tag = "Some"}}

\* the id of the entry at a path
EntryAt(tree, path) == CHOOSE i \in DOMAIN tree : tree[i].path = path

\* EffectiveUpdates without the comparison with the current tags
EffectiveUpdates_All(file_path, updates, current) == MetadataAction(file_path, updates, current)

\* {k: v for k, v in updates.items() if current.get(k, "") != v}
EffectiveUpdates(file_path, updates, current) ==
    MetadataAction(file_path,
                   [k \in {x \in DOMAIN updates : Get(current, x) # updates[x]} |-> updates[k]],
                   current)

\* the tags read for the keys derived
Compared(file_path, updates, audio) ==
    EffectiveUpdates(file_path, updates, read_current_tags(audio, DOMAIN updates))

\* the body of the loop for one candidate, up to the test for an empty diff
PlanOne(tree, tags, root, path) ==
    Compared(path, derive_metadata_for_file(root \o path).val, tags[EntryAt(tree, path)])

\* if not effective_updates: continue
WithUpdates(acts) == {a \in acts : DOMAIN a.updates # {}}

gather_metadata_actions(tree, tags, root) ==
    WithUpdates({PlanOne(tree, tags, root, p) : p \in MetadataCandidates(tree, root)})

\* print_metadata_preview: the files it lists with their tag diffs
print_metadata_preview(acts) == {[file_path |-> a.file_path, updates |-> a.updates] : a \in acts}

\* the action sorted() puts first
FirstByFilePath(acts) ==
    CHOOSE a \in acts : \A b \in acts \ {a} : StrLess(Str(a.file_path), Str(b.file_path))

\* sorted(actions, key=lambda a: str(a.file_path))
RECURSIVE SortedByFilePath(_)
FirstThenOthers(first, acts) == <<first>> \o SortedByFilePath(acts \ {first})
SortedByFilePath(acts) == IF acts = {} THEN <<>> ELSE FirstThenOthers(FirstByFilePath(acts), acts)

\* audio[key] = [value] for the keys in written, then audio.save()
WriteTags(audio, updates, written) ==
    [audio EXCEPT !.frames = [k \in DOMAIN audio.frames |->
        IF k \in written THEN ListOf(<<updates[k]>>) ELSE audio.frames[k]]]

\* ------------------------------------------------------------------------
\* The library: one artist directory, album directories in the shape the
\* rename rules expect and in the shape the metadata rules expect, tracks
\* ------------------------------------------------------------------------

ArtistX == <<"X">>
Album2001A == <<"2", "0", "0", "1", " ", "-", " ", "A">>
Album2002B == <<"2", "0", "0", "2", " ", "-", " ", "B">>
Album1999C == <<"2", "0", "0", "1", " ", "-", " ", "1", "9", "9", "9", " ", "-", " ", "C">>
AlbumA2001 == <<"A", " ", "(", "2", "0", "0", "1", ")">>
Track1 == <<"1", " ", "-", " ", "t", ".", "m", "p", "3">>
Track01 == <<"0", "1", " ", "t", ".", "m", "p", "3">>
Track02 == <<"0", "2", " ", "u", ".", "m", "p", "3">>
Track03 == <<"0", "3", " ", "v", ".", "M", "P", "3">>
Track100 == <<"1", "0", "0", " ", "t", ".", "f", "l", "a", "c">>
Notes04 == <<"0", "4", " ", "n", ".", "t", "x", "t">>

Dir(path) == [path |-> path, kind |-> "dir"]
File(path) == [path |-> path, kind |-> "file"]

\* the entries a library is made of; entry 1 is the artist directory
Universe ==
    << Dir(<<ArtistX>>),
       Dir(<<ArtistX, Album2001A>>),
       File(<<ArtistX, Album2001A, Track1>>),
       File(<<ArtistX, Album2001A, Track01>>),
       Dir(<<ArtistX, Album2001A, Album2002B>>),
       Dir(<<ArtistX, AlbumA2001>>),
       File(<<ArtistX, AlbumA2001, Track01>>),
       File(<<ArtistX, AlbumA2001, Track02>>),
       File(<<ArtistX, AlbumA2001, Track100>>),
       Dir(<<ArtistX, Album1999C>>),
       File(<<ArtistX, AlbumA2001, Track03>>),
       File(<<ArtistX, AlbumA2001, Notes04>>) >>

\* the number of entries of a library below its artist directory
MaxNodes == 4

\* a library holds, with an entry, the directories above it
Libraries ==
    {S \cup {1} : S \in {T \in SUBSET (2..Len(Universe)) :
        /\ Cardinality(T) <= MaxNodes
        /\ \A i \in T : \E j \in T \cup {1} : Universe[j].path = Parent(Universe[i].path)}}

\* args.root.resolve()
Root == << <<"l", "i", "b">> >>

AllAbsent == [k \in Range(TagKeys) |-> Absent]

\* a file already tagged as track 01 of album A (2001) by X
Tagged == [supported |-> TRUE, frames |->
    ("album" :> ListOf(<<<<"A">>>>)) @@ ("date" :> ListOf(<<<<"2", "0", "0", "1">>>>))
    @@ ("year" :> ListOf(<<<<"2", "0", "0", "1">>>>)) @@ ("tracknumber" :> ListOf(<<<<"0", "1">>>>))
    @@ ("artist" :> ListOf(<<<<"X">>>>)) @@ ("albumartist" :> ListOf(<<<<"X">>>>))
    @@ ("author" :> ListOf(<<<<"X">>>>))]

\* a file with a multi-valued, a string-valued, an empty and a stale tag
Mixed == [supported |-> TRUE, frames |->
    ("album" :> ListOf(<<<<"A">>, <<"B">>>>)) @@ ("date" :> StrOf(<<"2", "0", "0", "1">>))
    @@ ("year" :> ListOf(<<>>)) @@ ("tracknumber" :> ListOf(<<<<"1">>>>))
    @@ ("artist" :> Absent) @@ ("albumartist" :> ListOf(<<<<"X">>>>))
    @@ ("author" :> StrOf(<<"X">>))]

\* a file mutagen.File returns None for
Unsupported == [supported |-> FALSE, frames |-> AllAbsent]

Codecs == {Tagged, Mixed, Unsupported}

\* what the user types at the prompt
Answers == {<<"y">>, <<" ", "Y", "E", "S">>, <<>>, <<"n">>, <<"y", "e", "s", "s">>}

\* Accepts for a prompt that takes anything but n or no for a yes
Accepts_DefaultYes(ans) == lower(strip(ans)) \notin {<<"n">>, <<"n", "o">>}

\* answer.strip().lower() in {"y", "yes"}
Accepts(ans) == lower(strip(ans)) \in {<<"y">>, <<"y", "e", "s">>}

\* the command lines: a mode, --yes, and the two templates
Formats ==
    {[album |-> DefaultAlbumFormat, track |-> DefaultTrackFormat],
     [album |-> <<"{year}", " ", "-", " ", "{album}">>, track |-> <<"{track}", " ", "-", " ", "{title}">>],
     [album |-> <<"{artist}">>, track |-> DefaultTrackFormat]}

Modes == {"apply", "filenames", "metadata"}

\* YesParam with --apply passing args.yes on
YesParam_FromArgs(a) == a.yes

\* the yes argument main passes to run_filenames and run_metadata
YesParam(a) == IF a.mode = "apply" THEN TRUE ELSE a.yes

\* ------------------------------------------------------------------------
\* State
\* ------------------------------------------------------------------------

VARIABLES
    fs,         \* the tree under root: entry id -> [path, kind]
    codec,      \* the tags on disk: file id -> [supported, frames]
    pc,         \* where the process is
    args,       \* the parsed command line
    actions,    \* run_filenames' actions
    preview,    \* what print_rename_preview printed
    queue,      \* apply_rename_actions' [*files, *dirs] still to do
    log,        \* apply_rename_actions' [OK] / [SKIP] lines
    applied,    \* apply_rename_actions' applied
    mdActions,  \* run_metadata's actions
    mdPreview,  \* what print_metadata_preview printed
    mdQueue,    \* apply_metadata_actions' sorted actions still to do
    mdLog,      \* apply_metadata_actions' lines, and the file an exception hit
    mdApplied,  \* apply_metadata_actions' applied
    calls,      \* the calls made so far, in order
    answer,     \* the answers read
    rc,         \* the exit status, once the process has ended
    err,        \* the exception that ended a pipeline
    fs0,        \* the tree at the start
    codec0      \* the tags at the start

vars == <<fs, codec, pc, args, actions, preview, queue, log, applied, mdActions, mdPreview,
          mdQueue, mdLog, mdApplied, calls, answer, rc, err, fs0, codec0>>

renameVars == <<actions, preview, queue, log, applied>>
metadataVars == <<mdActions, mdPreview, mdQueue, mdLog, mdApplied>>

NoArgs == [mode |-> "none", yes |-> FALSE, album_format |-> <<>>, track_format |-> <<>>]

Init ==
    /\ \E lib \in Libraries : fs = [i \in lib |-> Universe[i]]
    /\ codec \in [{i \in DOMAIN fs : fs[i].kind = "file"} -> Codecs]
    /\ pc = "main"
    /\ args = NoArgs
    /\ actions = {}
    /\ preview = {}
    /\ queue = <<>>
    /\ log = <<>>
    /\ applied = 0
    /\ mdActions = {}
    /\ mdPreview = {}
    /\ mdQueue = <<>>
    /\ mdLog = <<>>
    /\ mdApplied = 0
    /\ calls = <<>>
    /\ answer = <<>>
    /\ rc = <<>>
    /\ err = "none"
    /\ fs0 = fs
    /\ codec0 = codec

\* ------------------------------------------------------------------------
\* main
\* ------------------------------------------------------------------------

\* parse_args and the dispatch on the mode
Main ==
    /\ pc = "main"
    /\ \E mode \in Modes, yes \in BOOLEAN, f \in Formats :
         args' = [mode |-> mode, yes |-> yes, album_format |-> f.album, track_format |-> f.track]
    /\ pc' = IF args'.mode = "metadata" THEN "run_metadata" ELSE "run_filenames"
    /\ UNCHANGED <<fs, codec, renameVars, metadataVars, calls, answer, rc, err, fs0, codec0>>

\* where main goes when run_filenames has returned 0
AfterFilenames(mode) == IF mode = "apply" THEN "run_metadata" ELSE "done"

\* the exit status when run_filenames has returned 0
ExitAfterFilenames(mode) == IF mode = "apply" THEN <<>> ELSE <<0>>

\* ------------------------------------------------------------------------
\* run_filenames
\* ------------------------------------------------------------------------

Plan == gather_rename_actions(fs, args.album_format, args.track_format)

\* str.format or with_name raises in gather_rename_actions; nothing catches it
RunFilenamesRaises ==
    /\ pc = "run_filenames"
    /\ \E plan \in {Plan} : plan.raised
    /\ pc' = "done"
    /\ rc' = <<1>>
    /\ err' = "uncaught"
    /\ calls' = calls \o <<"gather_rename_actions">>
    /\ UNCHANGED <<fs, codec, args, renameVars, metadataVars, answer, fs0, codec0>>

\* no actions: return 0
RunFilenamesNothing ==
    /\ pc = "run_filenames"
    /\ \E plan \in {Plan} :
         /\ ~plan.raised
         /\ plan.actions = {}
         /\ actions' = plan.actions
         /\ preview' = print_rename_preview(plan.actions)
    /\ pc' = AfterFilenames(args.mode)
    /\ rc' = ExitAfterFilenames(args.mode)
    /\ calls' = calls \o <<"gather_rename_actions">>
    /\ UNCHANGED <<fs, codec, args, queue, log, applied, metadataVars, answer, err, fs0, codec0>>

\* not yes: input()
RunFilenamesPrompt ==
    /\ pc = "run_filenames"
    /\ ~YesParam(args)
    /\ \E plan \in {Plan} :
         /\ ~plan.raised
         /\ plan.actions # {}
         /\ actions' = plan.actions
         /\ preview' = print_rename_preview(plan.actions)
    /\ pc' = "rename_confirm"
    /\ calls' = calls \o <<"gather_rename_actions", "input">>
    /\ UNCHANGED <<fs, codec, args, queue, log, applied, metadataVars, answer, rc, err, fs0, codec0>>

\* yes: on to apply_rename_actions
RunFilenamesProceed ==
    /\ pc = "run_filenames"
    /\ YesParam(args)
    /\ \E plan \in {Plan} :
         /\ ~plan.raised
         /\ plan.actions # {}
         /\ actions' = plan.actions
         /\ preview' = print_rename_preview(plan.actions)
         /\ queue' \in ApplyOrders(plan.actions)
    /\ pc' = "apply_rename"
    /\ calls' = calls \o <<"gather_rename_actions", "apply_rename_actions">>
    /\ UNCHANGED <<fs, codec, args, log, applied, metadataVars, answer, rc, err, fs0, codec0>>

\* the answer is y or yes
FilenamesConfirmed ==
    /\ pc = "rename_confirm"
    /\ \E ans \in Answers : Accepts(ans) /\ answer' = Append(answer, ans)
    /\ queue' \in ApplyOrders(actions)
    /\ pc' = "apply_rename"
    /\ calls' = calls \o <<"apply_rename_actions">>
    /\ UNCHANGED <<fs, codec, args, actions, preview, log, applied, metadataVars, rc, err, fs0, codec0>>

\* any other answer: "Aborted. No changes applied.", return 0
FilenamesDeclined ==
    /\ pc = "rename_confirm"
    /\ \E ans \in Answers : ~Accepts(ans) /\ answer' = Append(answer, ans)
    /\ pc' = AfterFilenames(args.mode)
    /\ rc' = ExitAfterFilenames(args.mode)
    /\ UNCHANGED <<fs, codec, args, renameVars, metadataVars, calls, err, fs0, codec0>>

LogLine(action, outcome) == [action |-> action, outcome |-> outcome]

\* Check without the dst.exists() test
Check_NoTargetTest(tree, action) ==
    IF ~exists(tree, action.source) THEN "source missing" ELSE "OK"

\* the two tests of the loop body: what the iteration prints
Check(tree, action) ==
    IF ~exists(tree, action.source) THEN "source missing"
    ELSE IF exists(tree, action.target) THEN "target already exists"
    ELSE "OK"

\* one iteration of apply_rename_actions' loop
ApplyRenameStep ==
    /\ pc = "apply_rename"
    /\ queue # <<>>
    /\ \E outcome \in {Check(fs, Head(queue))} :
         /\ log' = Append(log, LogLine(Head(queue), outcome))
         /\ IF outcome = "OK"
            THEN /\ fs' = rename(fs, Head(queue).source, Head(queue).target)
                 /\ applied' = applied + 1
            ELSE UNCHANGED <<fs, applied>>
    /\ queue' = Tail(queue)
    /\ UNCHANGED <<codec, pc, args, actions, preview, metadataVars, calls, answer, rc, err, fs0, codec0>>

\* the loop is over: apply_rename_actions and run_filenames return
ApplyRenameDone ==
    /\ pc = "apply_rename"
    /\ queue = <<>>
    /\ pc' = AfterFilenames(args.mode)
    /\ rc' = ExitAfterFilenames(args.mode)
    /\ UNCHANGED <<fs, codec, args, renameVars, metadataVars, calls, answer, err, fs0, codec0>>

\* ------------------------------------------------------------------------
\* run_metadata
\* ------------------------------------------------------------------------

MetadataPlan == gather_metadata_actions(fs, codec, Root)

\* importlib.util.find_spec("mutagen") is None: return 1
RunMetadataMissingDependency ==
    /\ pc = "run_metadata"
    /\ pc' = "done"
    /\ rc' = <<1>>
    /\ err' = "dependency"
    /\ calls' = calls \o <<"find_spec">>
    /\ UNCHANGED <<fs, codec, args, renameVars, metadataVars, answer, fs0, codec0>>

\* the codec raises on a file gather_metadata_actions reads: return 1
RunMetadataReadRaises ==
    /\ pc = "run_metadata"
    /\ MetadataCandidates(fs, Root) # {}
    /\ pc' = "done"
    /\ rc' = <<1>>
    /\ err' = "read"
    /\ calls' = calls \o <<"find_spec", "gather_metadata_actions">>
    /\ UNCHANGED <<fs, codec, args, renameVars, metadataVars, answer, fs0, codec0>>

\* no actions: return 0
RunMetadataNothing ==
    /\ pc = "run_metadata"
    /\ \E plan \in {MetadataPlan} :
         /\ plan = {}
         /\ mdActions' = plan
         /\ mdPreview' = print_metadata_preview(plan)
    /\ pc' = "done"
    /\ rc' = <<0>>
    /\ calls' = calls \o <<"find_spec", "gather_metadata_actions">>
    /\ UNCHANGED <<fs, codec, args, renameVars, mdQueue, mdLog, mdApplied, answer, err, fs0, codec0>>

\* not yes: input()
RunMetadataPrompt ==
    /\ pc = "run_metadata"
    /\ ~YesParam(args)
    /\ \E plan \in {MetadataPlan} :
         /\ plan # {}
         /\ mdActions' = plan
         /\ mdPreview' = print_metadata_preview(plan)
    /\ pc' = "metadata_confirm"
    /\ calls' = calls \o <<"find_spec", "gather_metadata_actions", "input">>
    /\ UNCHANGED <<fs, codec, args, renameVars, mdQueue, mdLog, mdApplied, answer, rc, err, fs0, codec0>>

\* yes: on to apply_metadata_actions
RunMetadataProceed ==
    /\ pc = "run_metadata"
    /\ YesParam(args)
    /\ \E plan \in {MetadataPlan} :
         /\ plan # {}
         /\ mdActions' = plan
         /\ mdPreview' = print_metadata_preview(plan)
         /\ mdQueue' = SortedByFilePath(plan)
    /\ pc' = "apply_metadata"
    /\ calls' = calls \o <<"find_spec", "gather_metadata_actions", "apply_metadata_actions">>
    /\ UNCHANGED <<fs, codec, args, renameVars, mdLog, mdApplied, answer, rc, err, fs0, codec0>>

\* the answer is y or yes
MetadataConfirmed ==
    /\ pc = "metadata_confirm"
    /\ \E ans \in Answers : Accepts(ans) /\ answer' = Append(answer, ans)
    /\ mdQueue' = SortedByFilePath(mdActions)
    /\ pc' = "apply_metadata"
    /\ calls' = calls \o <<"apply_metadata_actions">>
    /\ UNCHANGED <<fs, codec, args, renameVars, mdActions, mdPreview, mdLog, mdApplied, rc, err, fs0, codec0>>

\* any other answer: "Aborted. No changes applied.", return 0
MetadataDeclined ==
    /\ pc = "metadata_confirm"
    /\ \E ans \in Answers : ~Accepts(ans) /\ answer' = Append(answer, ans)
    /\ pc' = "done"
    /\ rc' = <<0>>
    /\ UNCHANGED <<fs, codec, args, renameVars, metadataVars, calls, err, fs0, codec0>>

MetadataLine(file_path, outcome) == [file_path |-> file_path, outcome |-> outcome]

\* one iteration of apply_metadata_actions' loop
ApplyMetadataStep ==
    /\ pc = "apply_metadata"
    /\ mdQueue # <<>>
    /\ LET action == Head(mdQueue)
           id == EntryAt(fs, action.file_path)
           audio == codec[id]
       IN  IF ~audio.supported
           THEN /\ mdLog' = Append(mdLog, MetadataLine(action.file_path, "unsupported format"))
                /\ UNCHANGED <<codec, mdApplied>>
           ELSE /\ codec' = [codec EXCEPT ![id] = WriteTags(audio, action.updates, DOMAIN action.updates)]
                /\ mdApplied' = mdApplied + 1
                /\ mdLog' = Append(mdLog, MetadataLine(action.file_path, "OK"))
    /\ mdQueue' = Tail(mdQueue)
    /\ UNCHANGED <<fs, pc, args, renameVars, mdActions, mdPreview, calls, answer, rc, err, fs0, codec0>>

\* ExceptWrite with the exception caught inside the loop, which goes on
ExceptWrite_InLoop(remaining) == [pc |-> "apply_metadata", rc |-> <<>>, mdQueue |-> remaining]

\* run_metadata's except around apply_metadata_actions: the loop is left with
\* the remaining actions undone, "Error while writing media files", return 1
ExceptWrite(remaining) == [pc |-> "done", rc |-> <<1>>, mdQueue |-> <<>>]

\* the codec raises in an iteration, on opening the file, on setting a key or
\* in save(); the file then holds its old tags or the new ones
ApplyMetadataRaises ==
    /\ pc = "apply_metadata"
    /\ mdQueue # <<>>
    /\ \E written \in {{}, DOMAIN Head(mdQueue).updates} :
         /\ ~codec[EntryAt(fs, Head(mdQueue).file_path)].supported => written = {}
         /\ codec' = [codec EXCEPT ![EntryAt(fs, Head(mdQueue).file_path)] =
                         WriteTags(@, Head(mdQueue).updates, written)]
    /\ mdLog' = Append(mdLog, MetadataLine(Head(mdQueue).file_path, "raised"))
    /\ \E handler \in {ExceptWrite(Tail(mdQueue))} :
         /\ pc' = handler.pc
         /\ rc' = handler.rc
         /\ mdQueue' = handler.mdQueue
    /\ err' = "write"
    /\ UNCHANGED <<fs, args, renameVars, mdActions, mdPreview, mdApplied, calls, answer, fs0, codec0>>

\* the loop is over: apply_metadata_actions returns, run_metadata returns 0
ApplyMetadataDone ==
    /\ pc = "apply_metadata"
    /\ mdQueue = <<>>
    /\ pc' = "done"
    /\ rc' = <<0>>
    /\ UNCHANGED <<fs, codec, args, renameVars, metadataVars, calls, answer, err, fs0, codec0>>

Next ==
    \/ Main
    \/ RunFilenamesRaises
    \/ RunFilenamesNothing
    \/ RunFilenamesPrompt
    \/ RunFilenamesProceed
    \/ FilenamesConfirmed
    \/ FilenamesDeclined
    \/ ApplyRenameStep
    \/ ApplyRenameDone
    \/ RunMetadataMissingDependency
    \/ RunMetadataReadRaises
    \/ RunMetadataNothing
    \/ RunMetadataPrompt
    \/ RunMetadataProceed
    \/ MetadataConfirmed
    \/ MetadataDeclined
    \/ ApplyMetadataStep
    \/ ApplyMetadataRaises
    \/ ApplyMetadataDone

Spec == Init /\ [][Next]_vars

TypeOK == pc \in {"main", "run_filenames", "rename_confirm", "apply_rename", "run_metadata",
                  "metadata_confirm", "apply_metadata", "done"}

\* ------------------------------------------------------------------------
\* Properties
\* ------------------------------------------------------------------------

Called(name) == \E i \in DOMAIN calls : calls[i] = name

\* the actions apply_rename_actions has renamed
Renamed == {log[i].action : i \in {j \in DOMAIN log : log[j].outcome = "OK"}}

\* the actions apply_rename_actions has reached
Reached == {log[i].action : i \in DOMAIN log}

\* C1: apply_rename_actions, run on the plan gather_rename_actions computed
\* from the tree and in its order (files by source path, then directories
\* deepest first), never reaches an action whose source is missing: it
\* prints no "source missing" skip.
C1_NoSourceMissing ==
    /\ \A i \in DOMAIN log : log[i].outcome # "source missing"
    /\ pc = "apply_rename" /\ queue # <<>> => exists(fs, Head(queue).source)

\* C1's case: a file was renamed inside a directory that was renamed after
\* it, and so was an album directory nested in that directory.
C1_Witness ==
    /\ pc = "done"
    /\ \E f, inner, outer \in Renamed :
         /\ f.kind = "file" /\ inner.kind = "dir" /\ outer.kind = "dir"
         /\ Parent(f.source) = outer.source
         /\ Parent(inner.source) = outer.source
    /\ \A i \in DOMAIN log : log[i].outcome = "OK"

\* C2: an iteration of apply_rename_actions whose action's target exists
\* leaves the tree and the count as they are; an iteration whose action's
\* source exists and whose target is free renames and counts it; no
\* iteration removes or replaces an entry; and every iteration passes on to
\* the next action.
C2_TargetExistsSkipped ==
    [][pc = "apply_rename" /\ queue # <<>> =>
        /\ exists(fs, Head(queue).target) => fs' = fs /\ applied' = applied
        /\ exists(fs, Head(queue).source) /\ ~exists(fs, Head(queue).target) =>
             /\ applied' = applied + 1
             /\ exists(fs', Head(queue).target)
             /\ ~exists(fs', Head(queue).source)
             /\ EntryAt(fs', Head(queue).target) = EntryAt(fs, Head(queue).source)
        /\ DOMAIN fs' = DOMAIN fs
        /\ \A i \in DOMAIN fs : fs'[i].kind = fs[i].kind
        /\ queue' = Tail(queue)
        /\ pc' = "apply_rename"]_vars

\* C2's case: a pass skipped an action because its target existed, the
\* entry at the target is still there, and the pass renamed another action.
C2_Witness ==
    /\ pc = "done"
    /\ \E i, j \in DOMAIN log :
         /\ log[i].outcome = "target already exists"
         /\ exists(fs0, log[i].action.target)
         /\ log[j].outcome = "OK"
         /\ i < j
    /\ applied = Cardinality(Renamed)
    /\ applied < Len(log)
    /\ DOMAIN fs = DOMAIN fs0

\* C9: no RenameAction that gather_rename_actions returns, file or dir, has
\* its target equal to its source, whatever the tree and the templates.
C9_TargetDiffersFromSource ==
    \A a \in actions \cup preview \cup Range(queue) : a.target # a.source

\* C9's case: a plan with a file action and a directory action.
C9_Witness ==
    /\ Called("gather_rename_actions")
    /\ \E a, b \in actions : a.kind = "file" /\ b.kind = "dir"

\* the files apply_metadata_actions has written
Written == {mdLog[i].file_path : i \in {j \in DOMAIN mdLog : mdLog[j].outcome = "OK"}}

\* the files apply_metadata_actions has reached
Opened == {mdLog[i].file_path : i \in DOMAIN mdLog}

\* gather_metadata_actions has returned and nothing has been written since
MetadataPlanned == Called("gather_metadata_actions") /\ err # "read" /\ mdLog = <<>>

\* main has called run_metadata
MetadataStarted ==
    pc \in {"run_metadata", "metadata_confirm", "apply_metadata"} \/ Called("find_spec")

\* C3: with the default album format, the album rule finds no match in the
\* name it has produced, so once a run has renamed the folders a second
\* gather_rename_actions plans no folder rename.
C3_SecondRunPlansNothing ==
    args.album_format = DefaultAlbumFormat =>
        /\ \A a \in actions : a.kind = "dir" =>
             normalized_album_name(Name(a.target), DefaultAlbumFormat).tag = "None"
        /\ pc = "done" /\ Called("apply_rename_actions")
              /\ {a \in actions : a.kind = "dir"} \subseteq Renamed =>
             \A a \in gather_rename_actions(fs, args.album_format, args.track_format).actions :
                a.kind # "dir"

\* the value stored for a key, if any: the first of a list, "" for an empty
\* list, the string
Stored(audio, k) ==
    IF ~audio.supported \/ audio.frames[k].t = "absent" THEN {}
    ELSE IF audio.frames[k].v = <<>> THEN {<<>>}
    ELSE {audio.frames[k].v[1]}

\* the derived keys whose stored value is not the derived one
Differing(path) ==
    LET derived == derive_metadata_for_file(Root \o path).val
    IN  {k \in DOMAIN derived : Stored(codec[EntryAt(fs, path)], k) # {derived[k]}}

\* C4: the plan of gather_metadata_actions holds, for each file it derives
\* tags for, one action whose updates are the derived keys whose stored
\* value differs from the derived one (a key without a stored value
\* differs), with the derived values; it holds no action for a file none of
\* whose keys differs, and no action with empty updates.
C4_EffectiveDiff ==
    MetadataPlanned =>
        /\ \A a \in mdActions :
             DOMAIN a.updates # {} /\ a.file_path \in MetadataCandidates(fs, Root)
        /\ \A p \in MetadataCandidates(fs, Root) :
             LET acts == {a \in mdActions : a.file_path = p}
                 derived == derive_metadata_for_file(Root \o p).val
             IN  IF Differing(p) = {} THEN acts = {}
                 ELSE \E a \in acts :
                        /\ acts = {a}
                        /\ DOMAIN a.updates = Differing(p)
                        /\ \A k \in DOMAIN a.updates : a.updates[k] = derived[k]

\* C4's case: the plan updates some but not all keys of one file and has
\* nothing for another file, whose tags are all as derived.
C4_Witness ==
    /\ MetadataPlanned
    /\ \E a \in mdActions : Cardinality(DOMAIN a.updates) \in 1..(Len(TagKeys) - 1)
    /\ \E p \in MetadataCandidates(fs, Root) :
         Differing(p) = {} /\ \A a \in mdActions : a.file_path # p

\* what print_metadata_preview shows of the files written
WrittenActions == {m \in mdPreview : m.file_path \in Written}

\* C5 as stated: once a pipeline's apply step is over, the actions carried
\* out are exactly the actions previewed.
C5_AppliedIsPreview ==
    /\ Called("apply_rename_actions") /\ queue = <<>> => Renamed = preview
    /\ Called("apply_metadata_actions") /\ pc = "done" => WrittenActions = mdPreview

\* C5 amended: the actions handed to the apply step are exactly the actions
\* previewed, every action carried out is a previewed one, and the rename
\* pass reaches every previewed action; a previewed action is not carried
\* out when it is skipped (source missing, target already exists,
\* unsupported format) or when a codec exception has ended the pass.
C5_AppliedWithinPreview ==
    /\ preview = actions
    /\ Called("apply_rename_actions") =>
         /\ Reached \cup Range(queue) = preview
         /\ queue = <<>> =>
              \A i \in DOMAIN log : log[i].action \in Renamed \/
                  log[i].outcome \in {"source missing", "target already exists"}
    /\ mdPreview = print_metadata_preview(mdActions)
    /\ Called("apply_metadata_actions") =>
         /\ Opened \cup {mdQueue[i].file_path : i \in DOMAIN mdQueue} \subseteq
                {m.file_path : m \in mdPreview}
         /\ pc = "done" /\ err = "none" => Opened = {m.file_path : m \in mdPreview}
         /\ \A i \in DOMAIN mdLog :
              mdLog[i].outcome \in {"OK", "unsupported format", "raised"}

\* C5's case: a rename pass is over that has carried out one previewed
\* action and skipped another.
C5_Witness ==
    /\ Called("apply_rename_actions")
    /\ queue = <<>>
    /\ Renamed # {}
    /\ preview \ Renamed # {}

\* the file holds every update of the action
Holds(audio, updates) == \A k \in DOMAIN updates : audio.frames[k] = ListOf(<<updates[k]>>)

\* C6: an exception of the codec while apply_metadata_actions writes ends
\* run_metadata with 1; the files opened are the first of the plan in
\* ascending path order, no later file has been opened or changed, and the
\* files written before keep their new tags.  An exception while planning
\* ends run_metadata with 1 before any write.
C6_CodecErrorAborts ==
    /\ err = "write" =>
         /\ pc = "done" /\ rc = <<1>>
         /\ mdLog # <<>>
         /\ mdLog[Len(mdLog)].outcome = "raised"
         /\ \A i \in 1..(Len(mdLog) - 1) : mdLog[i].outcome # "raised"
         /\ \A a \in mdActions :
              IF a.file_path \in Opened
              THEN a.file_path \in Written => Holds(codec[EntryAt(fs, a.file_path)], a.updates)
              ELSE /\ codec[EntryAt(fs, a.file_path)] = codec0[EntryAt(fs, a.file_path)]
                   /\ \A q \in Opened : StrLess(Str(q), Str(a.file_path))
    /\ err = "read" =>
         /\ pc = "done" /\ rc = <<1>>
         /\ codec = codec0
         /\ mdLog = <<>>
         /\ ~Called("apply_metadata_actions")

\* C6's case: the codec raised on the second file of a plan of three; the
\* first had been written.
C6_Witness ==
    /\ err = "write"
    /\ Len(mdLog) = 2
    /\ mdLog[1].outcome = "OK"
    /\ Cardinality(mdActions) = 3

\* C7: while a pipeline waits for the answer nothing has been changed, and
\* after an answer that is not y or yes (trimmed, in any case; the empty
\* answer too) the run has ended with 0 and without a rename or a tag write.
C7_DeclineChangesNothing ==
    /\ pc \in {"rename_confirm", "metadata_confirm"} => fs = fs0 /\ codec = codec0
    /\ \A i \in DOMAIN answer :
         lower(strip(answer[i])) \notin {<<"y">>, <<"y", "e", "s">>} =>
            /\ pc = "done" /\ rc = <<0>>
            /\ fs = fs0 /\ codec = codec0
            /\ log = <<>> /\ mdLog = <<>>

\* C7's case: the empty answer to the prompt of a plan that had actions.
C7_Witness ==
    /\ pc = "done"
    /\ answer = <<<<>>>>
    /\ ~args.yes
    /\ actions # {} \/ mdActions # {}

\* C8: under --apply there is no prompt, with or without --yes; the
\* metadata pipeline starts only when the rename pipeline has returned, its
\* pass having reached every one of its actions; and when the rename
\* pipeline has not returned 0 the metadata pipeline does not run.
C8_CombinedMode ==
    args.mode = "apply" =>
        /\ ~Called("input")
        /\ MetadataStarted =>
             /\ Called("gather_rename_actions")
             /\ queue = <<>>
             /\ Reached = actions
             /\ err # "uncaught"
        /\ err = "uncaught" => ~MetadataStarted /\ codec = codec0 /\ mdLog = <<>>
        /\ codec # codec0 => MetadataStarted

\* C8's case: --apply without --yes has renamed and then written tags.
C8_Witness ==
    /\ args.mode = "apply"
    /\ ~args.yes
    /\ pc = "done"
    /\ Renamed # {}
    /\ Written # {}

\* the audio files in a directory named as ALBUM_PATTERN expects, below an
\* artist directory
InAlbum == {fs[i].path : i \in {j \in DOMAIN fs :
    is_audio_file(fs[j]) /\ ALBUM_PATTERN(Name(Parent(fs[j].path))).tag = "Some"}}

\* C10 as stated: derive_metadata_for_file takes the first two digits of the
\* stem whatever follows, so "100 t.flac" gets tracknumber "10".
C10_FirstTwoDigits ==
    MetadataPlanned =>
        \A p \in InAlbum : Name(p) = Track100 =>
            /\ derive_metadata_for_file(Root \o p).tag = "Some"
            /\ derive_metadata_for_file(Root \o p).val["tracknumber"] = <<"1", "0">>

\* C10 amended: the rule takes the first two digits of the stem only when a
\* word boundary follows them (the stem ends, or the next character is not a
\* letter, a digit or an underscore); "100 t.flac" has a third digit there,
\* derive_metadata_for_file returns None for it and the plan skips it.
C10_TwoDigitsThenBoundary ==
    MetadataPlanned =>
        \A p \in InAlbum :
            LET stem == Stem(Name(p))
                derived == derive_metadata_for_file(Root \o p)
            IN  IF /\ Len(stem) >= 2 /\ IsDigit(stem[1]) /\ IsDigit(stem[2])
                   /\ (Len(stem) = 2 \/ ~IsWord(stem[3]))
                THEN derived.tag = "Some" /\ derived.val["tracknumber"] = SubSeq(stem, 1, 2)
                ELSE derived.tag = "None" /\ \A a \in mdActions : a.file_path # p

\* C10's case: a plan made over an album that holds "100 t.flac" has an
\* action for another file and none for that one.
C10_Witness ==
    /\ MetadataPlanned
    /\ mdActions # {}
    /\ \E p \in InAlbum :
         /\ Name(p) = Track100
         /\ derive_metadata_for_file(Root \o p).tag = "None"
         /\ \A a \in mdActions : a.file_path # p

====
